---- MODULE Spec2Model ----
(***************************************************************************)
(* Semantic verification engine: the judgment parser and verifyMarketPair, *)
(* smartVerifyPair with its embedding pre-filter, quickSimilarityScore,    *)
(* the embedding cache with its batch call and its file, the two search    *)
(* tools, generateVerificationReport and the batch agent                   *)
(* runVerificationAgent.                                                   *)
(*                                                                         *)
(* Numbers.  Similarities, thresholds and confidences are kept in          *)
(* hundredths (0.65 is 65).  Market prices are kept in hundredths too (the *)
(* integer k stands for the price k / PriceScale); a price spread is the   *)
(* plain number the code computes (cents for the batch flow).  Floating    *)
(* point rounding is not modelled: all arithmetic is exact.                *)
(*                                                                         *)
(* JavaScript's undefined is Missing (the empty tuple); a value v that is  *)
(* present is Some(v) (the one-element tuple).                             *)
(***************************************************************************)
EXTENDS Integers, Sequences, FiniteSets, TLC

VARIABLES
    embeddingCache,   \* marketId -> CacheEntry (a function on the cached ids)
    cacheStats,       \* [hits, misses, generated]
    calls,            \* the getEmbedding invocations, one per caller slot
    embedCalls,       \* test double: compute calls issued to embed(), per marketId
    vp,               \* one invocation of verifyMarketPair / smartVerifyPair / quickVerify
    judgeCalls,       \* test double: calls issued to generateText()
    rpt,              \* one invocation of generateVerificationReport
    agent,            \* one invocation of runVerificationAgent
    batch,            \* one invocation of batchGenerateEmbeddings
    persist,          \* the cache file, and what the last save and load saw
    score             \* one invocation of quickSimilarityScore

vars ==
    <<embeddingCache, cacheStats, calls, embedCalls, vp, judgeCalls, rpt, agent, batch,
      persist, score>>

----------------------------------------------------------------------------
(* Optional values *)

Missing == <<>>

Some(v) == <<v>>

Val(o) == o[1]

Opt(S) == {Missing} \cup {Some(v) : v \in S}

\* JavaScript truthiness of an optional number: undefined and 0 are falsy.
TruthyNum(o) == o # Missing /\ Val(o) # 0

Abs(n) == IF n < 0 THEN -n ELSE n

RECURSIVE SeqsUpTo(_, _)
SeqsUpTo(S, n) ==
    IF n = 0 THEN {<<>>}
    ELSE LET shorter == SeqsUpTo(S, n - 1)
         IN  shorter \cup {Append(s, x) : s \in {t \in shorter : Len(t) = n - 1}, x \in S}

----------------------------------------------------------------------------
(* Data model: src/src/types.ts and the schema of the comparison prompt *)

RiskLevels == {"LOW", "MEDIUM", "HIGH", "CRITICAL"}

Recommendations == {"SAFE_TO_TRADE", "PROCEED_WITH_CAUTION", "AVOID", "MANUAL_REVIEW"}

MisalignmentTypes ==
    {"RESOLUTION_DATE", "RESOLUTION_SOURCE", "SCOPE", "THRESHOLD", "DEFINITION", "EDGE_CASE"}

\* What the judgment collaborator may put in a field: the enum values and one
\* value outside the enum (nothing constrains the free text it returns).
JudgedRiskLevels == RiskLevels \cup {"EXTREME"}

JudgedRecommendations == Recommendations \cup {"BUY"}

\* The misalignment lists it may emit: none, one well-formed entry, and a list
\* with an entry whose severity is outside the enum.
JudgedMisalignmentLists ==
    { <<>>,
      <<[type |-> "RESOLUTION_DATE", severity |-> "HIGH"]>>,
      <<[type |-> "RESOLUTION_DATE", severity |-> "HIGH"],
        [type |-> "THRESHOLD", severity |-> "SEVERE"]>> }

\* (matchConfidence, semanticSimilarity) in hundredths: both within [0,1], and
\* both outside.
JudgedScores == { <<90, 80>>, <<150, -10>> }

\* The object "{}": valid JSON, no field present.
EmptyObject ==
    [ isMatch |-> Missing, matchConfidence |-> Missing, semanticSimilarity |-> Missing,
      misalignments |-> Missing, riskLevel |-> Missing, recommendation |-> Missing ]

JudgmentsOver(matches, risks, recs, lists, scores) ==
    { [ isMatch |-> Some(m), matchConfidence |-> Some(sc[1]),
        semanticSimilarity |-> Some(sc[2]), misalignments |-> Some(l),
        riskLevel |-> Some(r), recommendation |-> Some(rc) ] :
      m \in matches, r \in risks, rc \in recs, l \in lists, sc \in scores }

\* The JSON objects the judgment collaborator may answer with.
Judgments ==
    JudgmentsOver(BOOLEAN, JudgedRiskLevels, JudgedRecommendations,
                  JudgedMisalignmentLists, JudgedScores)
    \cup {EmptyObject}

----------------------------------------------------------------------------
(* The raw text of a judgment response.  A text is a sequence of tokens:   *)
(* "x" is text without braces, "{" and "}" are stray braces, and "J" is    *)
(* the text of one well-formed JSON object (it starts with "{" and ends    *)
(* with "}").  obj is the object the "J" spells.                           *)

MaxTokens == 2

Tokens == {"x", "{", "}", "J"}

Shapes == SeqsUpTo(Tokens, MaxTokens)

Min(S) == CHOOSE n \in S : \A m \in S : n <= m

Max(S) == CHOOSE n \in S : \A m \in S : m <= n

\* result.text.match(/\{[\s\S]*\}/): the leftmost "{" and, greedily, the last
\* "}" after it; Missing when there is no match.
RegexMatchObject(text) ==
    LET opens == {i \in 1..Len(text) : text[i] \in {"{", "J"}}
    IN  IF opens = {} THEN Missing
        ELSE LET first  == Min(opens)
                 closes == {j \in first..Len(text) :
                              /\ text[j] \in {"}", "J"}
                              /\ (j > first \/ text[j] = "J")}
             IN  IF closes = {} THEN Missing
                 ELSE Some(SubSeq(text, first, Max(closes)))

\* JSON.parse of the matched text: one object, or "{}", parses; anything else
\* (two objects, an object between stray braces or text) is a SyntaxError.
JSONParse(matched, obj) ==
    IF matched = <<"J">> THEN Some(obj)
    ELSE IF matched = <<"{", "}">> THEN Some(EmptyObject)
    ELSE Missing

\* The texts whose extraction yields the object the "J" spells: only for these
\* does the content of the object reach the program.
YieldsObject(shape) ==
    RegexMatchObject(shape) # Missing /\ Val(RegexMatchObject(shape)) = <<"J">>

\* The outcomes of one generateText call: it throws, or it returns a text.
JudgeOutcomesOver(judgments) ==
    {[kind |-> "throws", shape |-> <<>>, obj |-> EmptyObject]}
    \cup { [kind |-> "text", shape |-> s, obj |-> o] :
           s \in {t \in Shapes : YieldsObject(t)}, o \in judgments }
    \cup { [kind |-> "text", shape |-> s, obj |-> EmptyObject] :
           s \in {t \in Shapes : ~YieldsObject(t)} }

Failure(msg) == [success |-> FALSE, error |-> msg, verification |-> Missing]

\* A variant that answers a text without a JSON object with an empty judgment
\* in place of the failure.
verifyMarketPairDefaulting(outcome) ==
    IF outcome.kind = "throws" THEN Failure("Error")
    ELSE LET jsonMatch == RegexMatchObject(outcome.shape)
         IN  IF jsonMatch = Missing
             THEN [success |-> TRUE, error |-> "", verification |-> Some(EmptyObject)]
             ELSE LET parsed == JSONParse(Val(jsonMatch), outcome.obj)
                  IN  IF parsed = Missing THEN Failure("SyntaxError")
                      ELSE [success |-> TRUE, error |-> "", verification |-> parsed]

\* verifyMarketPair.execute after the generateText call was issued: the value
\* the tool returns for each outcome of the call.
verifyMarketPair(outcome) ==
    IF outcome.kind = "throws" THEN Failure("Error")
    ELSE LET jsonMatch == RegexMatchObject(outcome.shape)
         IN  IF jsonMatch = Missing THEN Failure("Failed to parse LLM response")
             ELSE LET parsed == JSONParse(Val(jsonMatch), outcome.obj)
                  IN  IF parsed = Missing THEN Failure("SyntaxError")
                      ELSE [success |-> TRUE, error |-> "", verification |-> parsed]

----------------------------------------------------------------------------
(* generateVerificationReport: the spread-adjusted recommendation *)

MinViableSpread == 3

GoodSpread == 5

MaxSpread == 10

MaxReportMisalignments == 2

Severities == {"LOW", "MEDIUM", "HIGH", "CRITICAL"}

ReportMisalignments == {[type |-> "SCOPE", severity |-> sv] : sv \in Severities}

\* The verification objects the report tool's schema admits, and the spreads a
\* caller may pass (none, negative, zero, positive).
ReportVerifications ==
    { [recommendation |-> rc, misalignments |-> l] :
      rc \in Recommendations, l \in SeqsUpTo(ReportMisalignments, MaxReportMisalignments) }

ReportSpreads == Opt(-1..MaxSpread)

CountSeverity(misalignments, sv) ==
    Cardinality({i \in 1..Len(misalignments) : misalignments[i].severity = sv})

\* A variant that downgrades on a tight spread alone, misalignments or not.
adjustedRecommendationOnSpreadAlone(verification, priceSpread) ==
    IF TruthyNum(priceSpread) /\ Val(priceSpread) < 3
    THEN "AVOID"
    ELSE verification.recommendation

\* let adjustedRecommendation = verification.recommendation;
\* if (priceSpread && priceSpread < 3 && verification.misalignments.length > 0) ...
adjustedRecommendation(verification, priceSpread) ==
    IF /\ TruthyNum(priceSpread)
       /\ Val(priceSpread) < MinViableSpread
       /\ Len(verification.misalignments) > 0
    THEN "AVOID"
    ELSE verification.recommendation

\* One guidance line per tag; a line quoting a misalignment is "DETAIL".
getTradingGuidance(verification, priceSpread) ==
    LET details(sevs) ==
            [i \in 1..Cardinality({j \in 1..Len(verification.misalignments) :
                                      verification.misalignments[j].severity \in sevs})
               |-> "DETAIL"]
    IN  IF verification.recommendation = "SAFE_TO_TRADE"
        THEN <<"SAFE_FOR_ARBITRAGE">>
             \o (IF TruthyNum(priceSpread) /\ Val(priceSpread) > GoodSpread
                 THEN <<"GOOD_OPPORTUNITY">> ELSE <<>>)
        ELSE IF verification.recommendation = "PROCEED_WITH_CAUTION"
        THEN <<"MINOR_DIFFERENCES", "SMALLER_POSITIONS">> \o details({"MEDIUM"})
        ELSE IF verification.recommendation = "AVOID"
        THEN <<"AVOID_ARBITRAGE", "MAY_RESOLVE_DIFFERENTLY">> \o details({"HIGH", "CRITICAL"})
        ELSE <<"MANUAL_REVIEW_REQUIRED", "NEEDS_HUMAN_JUDGMENT">>

generateVerificationReport(verification, priceSpread) ==
    [ recommendation  |-> adjustedRecommendation(verification, priceSpread),
      total           |-> Len(verification.misalignments),
      critical        |-> CountSeverity(verification.misalignments, "CRITICAL"),
      high            |-> CountSeverity(verification.misalignments, "HIGH"),
      medium          |-> CountSeverity(verification.misalignments, "MEDIUM"),
      low             |-> CountSeverity(verification.misalignments, "LOW"),
      tradingGuidance |-> getTradingGuidance(verification, priceSpread) ]

----------------------------------------------------------------------------
(* quickSimilarityScore: src/src/tools/verification.ts.  A string is the    *)
(* sequence of its characters.  The score intersection.size / union.size   *)
(* is kept as the pair of its numerator and denominator (0 is 0 / 1).      *)

MaxWords == 2

\* The pieces the questions are made of: words in upper and
\* lower case, with punctuation at the end and inside, of two and of more
\* letters, and the empty piece (it makes a leading, trailing or double blank).
ScoreChunks ==
    { <<"F", "e", "d">>, <<"f", "e", "d", "?">>, <<"r", "a", "t", "e">>,
      <<"t", "o">>, <<"i", "t", "'", "s">>, <<>> }

RECURSIVE Join(_)
Join(chunks) ==
    IF chunks = <<>> THEN <<>>
    ELSE IF Len(chunks) = 1 THEN chunks[1]
    ELSE chunks[1] \o <<" ">> \o Join(Tail(chunks))

ScoreQuestions == {Join(chunks) : chunks \in SeqsUpTo(ScoreChunks, MaxWords)}

\* String.prototype.toLowerCase, on the characters of ScoreChunks.
toLowerCase(s) == [i \in 1..Len(s) |-> IF s[i] = "F" THEN "f" ELSE s[i]]

\* The characters of ScoreChunks in the class \w, and the one in \s.
WordChars == {"F", "f", "e", "d", "r", "a", "t", "o", "i", "s"}

\* s.toLowerCase().replace(/[^\w\s]/g, '')
normalize(s) == SelectSeq(toLowerCase(s), LAMBDA c : c \in WordChars \/ c = " ")

\* split(/\s+/): the pieces between the runs of blanks, as a set (an empty
\* piece stands before a leading and after a trailing run, and "" gives [""]).
RECURSIVE Split(_, _, _)
Split(s, piece, inBlanks) ==
    IF s = <<>> THEN {piece}
    ELSE IF s[1] = " "
    THEN (IF inBlanks THEN {} ELSE {piece}) \cup Split(Tail(s), <<>>, TRUE)
    ELSE Split(Tail(s), Append(piece, s[1]), FALSE)

\* A variant that keeps the words of every length.
wordsOfAnyLength(question) == Split(normalize(question), <<>>, FALSE)

\* new Set(normalize(question).split(/\s+/).filter(w => w.length > 2))
words(question) == {w \in Split(normalize(question), <<>>, FALSE) : Len(w) > 2}

\* union.size > 0 ? intersection.size / union.size : 0
quickSimilarityScore(question1, question2) ==
    LET words1 == words(question1)
        words2 == words(question2)
        intersection == {x \in words1 : x \in words2}
        union == words1 \cup words2
    IN  IF Cardinality(union) > 0
        THEN [num |-> Cardinality(intersection), den |-> Cardinality(union)]
        ELSE [num |-> 0, den |-> 1]

IdleScore == [pc |-> "idle", question1 |-> <<>>, question2 |-> <<>>, result |-> Missing]

QuickSimilarityScore ==
    /\ score.pc = "called"
    /\ score' = [score EXCEPT !.pc = "done",
                              !.result = Some(quickSimilarityScore(score.question1,
                                                                   score.question2))]
    /\ UNCHANGED <<embeddingCache, cacheStats, calls, embedCalls, vp, judgeCalls, rpt, agent,
                   batch, persist>>

----------------------------------------------------------------------------
(* cosineSimilarity.  The value dot / (sqrt(normA) * sqrt(normB)) is kept  *)
(* as the three integers it is computed from; comparisons with a number of *)
(* hundredths are exact.                                                   *)

RECURSIVE Dot(_, _)
Dot(a, b) == IF a = <<>> THEN 0 ELSE a[1] * b[1] + Dot(Tail(a), Tail(b))

\* A variant that takes vectors of different lengths for orthogonal.
cosineSimilarityOfAnyLengths(a, b) ==
    IF Len(a) # Len(b)
    THEN Some([dotProduct |-> 0, normA |-> Dot(a, a), normB |-> Dot(b, b)])
    ELSE Some([dotProduct |-> Dot(a, b), normA |-> Dot(a, a), normB |-> Dot(b, b)])

\* Missing when the function throws ("Vector dimensions don't match").
cosineSimilarity(a, b) ==
    IF Len(a) # Len(b) THEN Missing
    ELSE Some([dotProduct |-> Dot(a, b), normA |-> Dot(a, a), normB |-> Dot(b, b)])

\* similarity < pct / 100, where magnitude === 0 gives the similarity 0.
SimBelow(sim, pct) ==
    LET n == sim.normA * sim.normB
        d == sim.dotProduct
    IN  IF n = 0 THEN 0 < pct
        ELSE IF pct >= 0 THEN d < 0 \/ d * d * 10000 < pct * pct * n
        ELSE d < 0 /\ d * d * 10000 > pct * pct * n

----------------------------------------------------------------------------
(* The embedding cache: src/src/tools/embedding-cache.ts *)

MarketIds == {"X", "Y"}

\* A marketId is any string; this one is also the name of the accessor every
\* plain object inherits from Object.prototype.
ProtoKey == "__proto__"

KnownIds == MarketIds \cup {ProtoKey}

Questions == {"q1", "q2"}

Venues == {"KALSHI", "POLYMARKET"}

Slots == {"a", "b"}

MaxCalls == 2

EmptyCache == <<>>

EmptyStats == [hits |-> 0, misses |-> 0, generated |-> 0]

\* What a caller observes around its call: getCacheStats() and the compute
\* calls the embedding collaborator has received for the id.
Observed(stats, issued, marketId) ==
    [ hits |-> stats.hits, misses |-> stats.misses, generated |-> stats.generated,
      computeCalls |-> IF marketId \in DOMAIN issued THEN issued[marketId] ELSE 0 ]

NothingObserved == [hits |-> 0, misses |-> 0, generated |-> 0, computeCalls |-> 0]

IdleCall ==
    [ pc |-> "idle", marketId |-> "", question |-> "", venue |-> "",
      wasCached |-> FALSE, before |-> NothingObserved, after |-> NothingObserved,
      result |-> Missing ]

IsCached(marketId) == marketId \in DOMAIN embeddingCache

MapSet(map, key, value) ==
    [k \in DOMAIN map \cup {key} |-> IF k = key THEN value ELSE map[k]]

\* A variant that books a cache hit as a miss.
countHitAsMiss(stats) == [stats EXCEPT !.misses = @ + 1]

\* cacheStats.hits++
countHit(stats) == [stats EXCEPT !.hits = @ + 1]

\* getEmbedding up to its first await.  A hit counts and returns the stored
\* embedding; a miss counts and issues the compute call.  stats and issued are
\* the counters as this call finds them.
getEmbeddingStart(stats, issued, marketId, question, venue) ==
    IF IsCached(marketId)
    THEN [ stats  |-> countHit(stats),
           issued |-> issued,
           call   |-> [ pc |-> "returned", marketId |-> marketId,
                        question |-> question, venue |-> venue, wasCached |-> TRUE,
                        before |-> Observed(stats, issued, marketId),
                        after |-> Observed(countHit(stats), issued, marketId),
                        result |-> Some(embeddingCache[marketId].embedding) ] ]
    ELSE [ stats  |-> [stats EXCEPT !.misses = @ + 1],
           issued |-> [issued EXCEPT ![marketId] = @ + 1],
           call   |-> [ pc |-> "awaiting", marketId |-> marketId,
                        question |-> question, venue |-> venue, wasCached |-> FALSE,
                        before |-> Observed(stats, issued, marketId),
                        after |-> NothingObserved,
                        result |-> Missing ] ]

\* generateEmbeddingForText: the EmbeddingMetadata built around the vector.
generateEmbeddingForText(text, vector) == [vector |-> vector, sourceText |-> text]

RECURSIVE SumOver(_, _)
SumOver(f, S) ==
    IF S = {} THEN 0
    ELSE LET x == CHOOSE y \in S : TRUE IN f[x] + SumOver(f, S \ {x})

\* The model stops issuing calls after MaxCalls lookups since the last clear
\* and MaxCalls compute calls in all.
CallBudget ==
    /\ cacheStats.hits + cacheStats.misses < MaxCalls
    /\ SumOver(embedCalls, KnownIds) < MaxCalls

\* A caller invokes getEmbedding(marketId, question, venue).
GetEmbedding(s, marketId, question, venue) ==
    /\ calls[s].pc = "idle"
    /\ CallBudget
    /\ LET r == getEmbeddingStart(cacheStats, embedCalls, marketId, question, venue)
       IN  /\ cacheStats' = r.stats
           /\ embedCalls' = r.issued
           /\ calls' = [calls EXCEPT ![s] = r.call]
    /\ UNCHANGED <<embeddingCache, vp, judgeCalls, rpt, agent, batch, persist, score>>

\* The compute call of slot s resolves with a vector: store, count, return.
EmbedReturn(s, vector) ==
    /\ calls[s].pc = "awaiting"
    /\ LET embedding == generateEmbeddingForText(calls[s].question, vector)
           stats     == [cacheStats EXCEPT !.generated = @ + 1]
       IN  /\ embeddingCache' =
                  MapSet(embeddingCache, calls[s].marketId,
                         [embedding |-> embedding, venue |-> calls[s].venue])
           /\ cacheStats' = stats
           /\ calls' = [calls EXCEPT ![s].pc = "returned",
                                     ![s].after = Observed(stats, embedCalls,
                                                           calls[s].marketId),
                                     ![s].result = Some(embedding)]
    /\ UNCHANGED <<embedCalls, vp, judgeCalls, rpt, agent, batch, persist, score>>

\* A variant that caches an empty embedding when the compute call rejects.
EmbedThrowStoringEmpty(s) ==
    /\ calls[s].pc = "awaiting"
    /\ embeddingCache' =
           MapSet(embeddingCache, calls[s].marketId,
                  [ embedding |-> generateEmbeddingForText(calls[s].question, <<>>),
                    venue |-> calls[s].venue ])
    /\ calls' = [calls EXCEPT ![s].pc = "threw",
                              ![s].after = Observed(cacheStats, embedCalls,
                                                    calls[s].marketId)]
    /\ UNCHANGED <<cacheStats, embedCalls, vp, judgeCalls, rpt, agent, batch, persist, score>>

\* The compute call of slot s rejects: getEmbedding throws, nothing is stored.
EmbedThrow(s) ==
    /\ calls[s].pc = "awaiting"
    /\ calls' = [calls EXCEPT ![s].pc = "threw",
                              ![s].after = Observed(cacheStats, embedCalls,
                                                    calls[s].marketId)]
    /\ UNCHANGED <<embeddingCache, cacheStats, embedCalls, vp, judgeCalls, rpt, agent,
                   batch, persist, score>>

\* The caller takes the outcome of its call; the slot is free again.
TakeResult(s) ==
    /\ calls[s].pc \in {"returned", "threw"}
    /\ calls' = [calls EXCEPT ![s] = IdleCall]
    /\ UNCHANGED <<embeddingCache, cacheStats, embedCalls, vp, judgeCalls, rpt, agent,
                   batch, persist, score>>

\* getCacheStats(): the size of the map and the three counters (hitRate, a
\* string derived from hits and misses, is left out).
getCacheStats ==
    [ size |-> Cardinality(DOMAIN embeddingCache), hits |-> cacheStats.hits,
      misses |-> cacheStats.misses, generated |-> cacheStats.generated ]

\* A variant that drops the entries and keeps the counters.
clearCacheKeepingCounters ==
    /\ embeddingCache # EmptyCache \/ cacheStats # EmptyStats
    /\ embeddingCache' = EmptyCache
    /\ UNCHANGED <<cacheStats, calls, embedCalls, vp, judgeCalls, rpt, agent, batch,
                   persist, score>>

\* embeddingCache.clear(); cacheStats = { hits: 0, misses: 0, generated: 0 }
\* (a clear of the cache as constructed changes nothing and is no step).
clearCache ==
    /\ embeddingCache # EmptyCache \/ cacheStats # EmptyStats
    /\ embeddingCache' = EmptyCache
    /\ cacheStats' = EmptyStats
    /\ UNCHANGED <<calls, embedCalls, vp, judgeCalls, rpt, agent, batch, persist, score>>

----------------------------------------------------------------------------
(* batchGenerateEmbeddings: src/src/tools/embedding-cache.ts *)

MaxBatch == 2

\* The markets a caller may pass: both ids, one of them under two questions,
\* in lists of up to MaxBatch entries (an id may occur twice).
BatchMarkets ==
    { [id |-> "X", question |-> "q1", venue |-> "KALSHI"],
      [id |-> "X", question |-> "q2", venue |-> "KALSHI"],
      [id |-> "Y", question |-> "q1", venue |-> "POLYMARKET"] }

BatchInputs == SeqsUpTo(BatchMarkets, MaxBatch)

IdleBatch ==
    [ pc |-> "idle", markets |-> <<>>, cacheAtCall |-> EmptyCache,
      uncached |-> <<>>, request |-> <<>>,
      embedManyCalls |-> 0, response |-> <<>>, cacheAtReturn |-> EmptyCache,
      results |-> Missing ]

Ids(markets) == {markets[i].id : i \in 1..Len(markets)}

\* The entry a forEach leaves under an id that occurs more than once: the last.
LastIndex(markets, id) == Max({i \in 1..Len(markets) : markets[i].id = id})

\* A variant that sends every market to the collaborator, cached or not.
uncachedUnfiltered(markets) == markets

\* markets.filter(m => !embeddingCache.has(m.id))
uncached(markets) == SelectSeq(markets, LAMBDA m : ~IsCached(m.id))

\* uncached.forEach((market, i) => embeddingCache.set(market.id, ...embeddings[i]))
batchStore(cache, list, embeddings) ==
    [ k \in DOMAIN cache \cup Ids(list) |->
        IF k \in Ids(list)
        THEN LET i == LastIndex(list, k)
             IN  [ embedding |-> generateEmbeddingForText(list[i].question, embeddings[i]),
                   venue |-> list[i].venue ]
        ELSE cache[k] ]

\* The Map the function returns: an entry per id that is in the cache `cache`.
batchResults(cache, markets) ==
    Some([k \in Ids(markets) \cap DOMAIN cache |-> cache[k].embedding])

\* batchGenerateEmbeddings up to its await: all cached, or the one embedMany call.
BatchCall(markets) ==
    /\ batch.pc = "idle"
    /\ IF uncached(markets) = <<>>
       THEN /\ batch' = [batch EXCEPT !.pc = "returned", !.markets = markets,
                                      !.cacheAtCall = embeddingCache,
                                      !.cacheAtReturn = embeddingCache,
                                      !.results = batchResults(embeddingCache, markets)]
            /\ cacheStats' = [cacheStats EXCEPT !.hits = @ + Len(markets)]
       ELSE /\ batch' = [batch EXCEPT !.pc = "awaiting", !.markets = markets,
                                      !.cacheAtCall = embeddingCache,
                                      !.uncached = uncached(markets),
                                      !.request = [i \in 1..Len(uncached(markets)) |->
                                                     uncached(markets)[i].question],
                                      !.embedManyCalls = @ + 1]
            /\ UNCHANGED cacheStats
    /\ UNCHANGED <<embeddingCache, calls, embedCalls, vp, judgeCalls, rpt, agent, persist,
                   score>>

\* embedMany resolves with one vector per text: store them, then add the
\* markets the results lack and the cache holds (a hit each), and return.
BatchReturn(embeddings) ==
    /\ batch.pc = "awaiting"
    /\ Len(embeddings) = Len(batch.request)
    /\ LET list   == batch.uncached
           stored == batchStore(embeddingCache, list, embeddings)
           others == (Ids(batch.markets) \ Ids(list)) \cap DOMAIN stored
       IN  /\ embeddingCache' = stored
           /\ cacheStats' = [cacheStats EXCEPT !.generated = @ + Len(list),
                                               !.hits = @ + Cardinality(others)]
           /\ batch' = [batch EXCEPT !.pc = "returned", !.response = embeddings,
                                     !.cacheAtReturn = stored,
                                     !.results = batchResults(stored, batch.markets)]
    /\ UNCHANGED <<calls, embedCalls, vp, judgeCalls, rpt, agent, persist, score>>

\* embedMany rejects: batchGenerateEmbeddings rejects, nothing is stored.
BatchThrow ==
    /\ batch.pc = "awaiting"
    /\ batch' = [batch EXCEPT !.pc = "threw"]
    /\ UNCHANGED <<embeddingCache, cacheStats, calls, embedCalls, vp, judgeCalls, rpt,
                   agent, persist, score>>

----------------------------------------------------------------------------
(* saveCacheToFile and loadCacheFromFile: src/src/tools/embedding-cache.ts  *)
(*                                                                         *)
(* A plain object is the function from its own enumerable property names   *)
(* to their values.  A JSON text is the set of the members (name, value)   *)
(* it lists.  The numbers of a vector are finite (they reached the process *)
(* as JSON), and JSON.stringify then JSON.parse gives a finite number back *)
(* as it was; the strings of an entry come back as they were.              *)

\* The ids the persistence functions are exercised with.
PersistIds == {"X", ProtoKey}

\* persist.file is the file at CACHE_FILE_PATH (Missing: it does not exist).
\* savedCache is the cache as the last save found it; cacheBeforeLoad and
\* cacheAfterLoad are the cache around the last load since that save.
NothingPersisted ==
    [ file |-> Missing, savedCache |-> EmptyCache, loadResult |-> Missing,
      cacheBeforeLoad |-> EmptyCache, cacheAfterLoad |-> EmptyCache ]

\* data[key] = value on a plain object: an own property, except for the key
\* "__proto__", which calls the inherited setter (the object's prototype
\* becomes value) and adds no own property.
ObjectAssign(data, key, value) ==
    IF key = ProtoKey THEN data ELSE MapSet(data, key, value)

\* embeddingCache.forEach((value, key) => { data[key] = value }) from {}.
RECURSIVE ObjectFromMap(_, _)
ObjectFromMap(map, keys) ==
    IF keys = {} THEN <<>>
    ELSE LET key == CHOOSE k \in keys : TRUE
         IN  ObjectAssign(ObjectFromMap(map, keys \ {key}), key, map[key])

\* JSON.stringify(data, null, 2): one member per own enumerable property.
JSONStringify(data) == {[name |-> k, value |-> data[k]] : k \in DOMAIN data}

\* JSON.parse of an object text: an own property per member name.
JSONParseObject(text) ==
    [ k \in {m.name : m \in text} |-> (CHOOSE m \in text : m.name = k).value ]

\* Object.entries(data).forEach(([key, value]) => embeddingCache.set(key, value))
MapSetAll(map, data) ==
    [k \in DOMAIN map \cup DOMAIN data |-> IF k \in DOMAIN data THEN data[k] ELSE map[k]]

saveCacheToFile ==
    /\ persist' = [ NothingPersisted EXCEPT
                      !.file = Some(JSONStringify(ObjectFromMap(embeddingCache,
                                                                DOMAIN embeddingCache))),
                      !.savedCache = embeddingCache ]
    /\ UNCHANGED <<embeddingCache, cacheStats, calls, embedCalls, vp, judgeCalls, rpt,
                   agent, batch, score>>

\* No file: false.  Else every entry of the file is set in the cache, over
\* what the cache holds, and the function returns true.  (Only saveCacheToFile
\* writes the file, so JSON.parse finds an object text and the catch is not
\* entered.)
loadCacheFromFile ==
    /\ IF persist.file = Missing
       THEN /\ persist' = [persist EXCEPT !.loadResult = Some(FALSE),
                                          !.cacheBeforeLoad = embeddingCache,
                                          !.cacheAfterLoad = embeddingCache]
            /\ UNCHANGED embeddingCache
       ELSE LET loaded == MapSetAll(embeddingCache, JSONParseObject(Val(persist.file)))
            IN  /\ embeddingCache' = loaded
                /\ persist' = [persist EXCEPT !.loadResult = Some(TRUE),
                                              !.cacheBeforeLoad = embeddingCache,
                                              !.cacheAfterLoad = loaded]
    /\ UNCHANGED <<cacheStats, calls, embedCalls, vp, judgeCalls, rpt, agent, batch, score>>

----------------------------------------------------------------------------
(* verifyMarketPair, smartVerifyPair and quickVerify as one invocation vp  *)

DefaultSimilarityThreshold == 65

UnlikelyBelow == 50

\* similarityThreshold as callers pass it: the default and two overrides.
SimilarityThresholds == {40, DefaultSimilarityThreshold, 80}

\* What embed() may resolve with: vectors at cosine 0, about 0.51, about 0.71,
\* about 0.97 and 1 of each other, the zero vector, and one of another dimension.
EmbeddingVectors == {<<1, 0>>, <<0, 1>>, <<1, 1>>, <<3, 5>>, <<0, 0>>, <<1>>}

\* The vectors the cache is exercised with: two that differ suffice there.
CacheVectors == {<<1, 0>>, <<0, 1>>}

KalshiInputs == {[marketId |-> id, question |-> "q1"] : id \in MarketIds}

PolymarketInputs == {[marketId |-> id, question |-> "q2"] : id \in MarketIds}

IdleVp ==
    [ pc |-> "idle", entry |-> "", similarityThreshold |-> 0, skipLLM |-> FALSE,
      sim |-> Missing, judged |-> FALSE, judgeThrew |-> FALSE, sawObject |-> FALSE,
      objectFirst |-> FALSE, path |-> <<>>, result |-> Missing ]

\* Whether a response text holds a JSON object at all ("{}" included).
ContainsJSONObject(shape) ==
    \/ \E i \in 1..Len(shape) : shape[i] = "J"
    \/ \E i \in 1..(Len(shape) - 1) : shape[i] = "{" /\ shape[i + 1] = "}"

\* A response text made of text without braces, then one JSON object, then
\* anything: more text, stray braces, a second object.
ObjectThenAnything(shape) ==
    \E i \in 1..Len(shape) : shape[i] = "J" /\ \A j \in 1..(i - 1) : shape[j] = "x"

\* obj?.field for a verification that may be undefined.
Field(verification, f) == IF verification = Missing THEN Missing ELSE Val(verification)[f]

\* smartVerifyPair's return values.
smartCaught ==
    [ success |-> FALSE, method |-> Missing, embeddingSimilarity |-> Missing,
      verification |-> Missing, recommendation |-> Missing, shouldTrade |-> Missing,
      misalignments |-> Missing ]

\* A variant that tells unlikely from possible at the escalation default.
smartEmbeddingOnlyAtDefault(sim) ==
    [ success |-> TRUE, method |-> Some("embedding_only"), embeddingSimilarity |-> Some(sim),
      verification |-> Missing,
      recommendation |-> Some(IF SimBelow(sim, 65)
                              THEN "UNLIKELY_MATCH" ELSE "POSSIBLE_MATCH"),
      shouldTrade |-> Some(FALSE), misalignments |-> Missing ]

smartEmbeddingOnly(sim) ==
    [ success |-> TRUE, method |-> Some("embedding_only"), embeddingSimilarity |-> Some(sim),
      verification |-> Missing,
      recommendation |-> Some(IF SimBelow(sim, UnlikelyBelow)
                              THEN "UNLIKELY_MATCH" ELSE "POSSIBLE_MATCH"),
      shouldTrade |-> Some(FALSE), misalignments |-> Missing ]

smartAfterLLM(sim, llmResult) ==
    IF ~llmResult.success
    THEN [ success |-> FALSE, method |-> Some("llm_failed"), embeddingSimilarity |-> Some(sim),
           verification |-> Missing, recommendation |-> Missing, shouldTrade |-> Missing,
           misalignments |-> Missing ]
    ELSE [ success |-> TRUE, method |-> Some("embedding_plus_llm"),
           embeddingSimilarity |-> Some(sim),
           verification |-> llmResult.verification,
           recommendation |-> Field(llmResult.verification, "recommendation"),
           shouldTrade |-> Some(Field(llmResult.verification, "recommendation")
                                = Some("SAFE_TO_TRADE")),
           misalignments |-> Field(llmResult.verification, "misalignments") ]

\* quickVerify's return values.  x || d takes d when x is undefined or falsy.
quickNotFound ==
    [verified |-> FALSE, confidence |-> 0, recommendation |-> "Markets not found",
     topMisalignment |-> Missing]

quickAfterVerify(result) ==
    IF ~result.success
    THEN [verified |-> FALSE, confidence |-> 0, recommendation |-> "Verification failed",
          topMisalignment |-> Missing]
    ELSE LET isMatch == Field(result.verification, "isMatch")
             conf    == Field(result.verification, "matchConfidence")
             rec     == Field(result.verification, "recommendation")
             mis     == Field(result.verification, "misalignments")
         IN  [ verified |-> IF isMatch = Missing THEN FALSE ELSE Val(isMatch),
               confidence |-> IF conf = Missing THEN 0 ELSE Val(conf),
               recommendation |-> IF rec = Missing THEN "UNKNOWN" ELSE Val(rec),
               topMisalignment |->
                   IF mis = Missing \/ Val(mis) = <<>> THEN Missing ELSE Some(Val(mis)[1]) ]

\* verifyMarketPair.execute is called directly: the prompt is built and the
\* generateText call is issued.
VerifyMarketPairCall ==
    /\ vp.pc = "idle"
    /\ vp' = [vp EXCEPT !.pc = "judging", !.entry = "verifyMarketPair",
                        !.path = <<"START", "JUDGMENT_REQUESTED">>]
    /\ judgeCalls' = judgeCalls + 1
    /\ UNCHANGED <<embeddingCache, cacheStats, calls, embedCalls, rpt, agent, batch,
                   persist, score>>

\* smartVerifyPair.execute up to its first await: both getEmbedding calls of
\* the Promise.all start, the Kalshi one first.
SmartVerifyPairCall(kalshiMarket, polymarketMarket, similarityThreshold, skipLLM) ==
    /\ vp.pc = "idle"
    /\ \A s \in Slots : calls[s].pc = "idle"
    /\ LET r1 == getEmbeddingStart(cacheStats, embedCalls,
                                   kalshiMarket.marketId, kalshiMarket.question, "KALSHI")
           r2 == getEmbeddingStart(r1.stats, r1.issued,
                                   polymarketMarket.marketId, polymarketMarket.question,
                                   "POLYMARKET")
       IN  /\ cacheStats' = r2.stats
           /\ embedCalls' = r2.issued
           /\ calls' = [calls EXCEPT !["a"] = r1.call, !["b"] = r2.call]
    /\ vp' = [vp EXCEPT !.pc = "embedding", !.entry = "smartVerifyPair",
                        !.similarityThreshold = similarityThreshold, !.skipLLM = skipLLM,
                        !.path = <<"START">>]
    /\ UNCHANGED <<embeddingCache, judgeCalls, rpt, agent, batch, persist, score>>

\* A variant that escalates whatever the skip flag says.
skipsLLMOnSimilarityAlone(sim, similarityThreshold, skipLLM) ==
    SimBelow(sim, similarityThreshold)

\* if (embeddingSimilarity < similarityThreshold || skipLLM): no LLM call.
skipsLLM(sim, similarityThreshold, skipLLM) ==
    SimBelow(sim, similarityThreshold) \/ skipLLM

\* Both embeddings are there: cosineSimilarity, then the decision to escalate.
SmartEmbedded ==
    /\ vp.pc = "embedding"
    /\ \A s \in Slots : calls[s].pc = "returned"
    /\ LET sim == cosineSimilarity(Val(calls["a"].result).vector,
                                   Val(calls["b"].result).vector)
       IN  IF sim = Missing
           THEN /\ vp' = [vp EXCEPT !.pc = "done", !.result = Some(smartCaught),
                                    !.path = Append(@, "FAILED")]
                /\ UNCHANGED judgeCalls
           ELSE IF skipsLLM(Val(sim), vp.similarityThreshold, vp.skipLLM)
           THEN /\ vp' = [vp EXCEPT !.pc = "done", !.sim = sim,
                                    !.result = Some(smartEmbeddingOnly(Val(sim))),
                                    !.path = @ \o <<"PRE_FILTERED_OUT", "END">>]
                /\ UNCHANGED judgeCalls
           ELSE /\ vp' = [vp EXCEPT !.pc = "judging", !.sim = sim,
                                    !.path = Append(@, "JUDGMENT_REQUESTED")]
                /\ judgeCalls' = judgeCalls + 1
    /\ calls' = [s \in Slots |-> IdleCall]
    /\ UNCHANGED <<embeddingCache, cacheStats, embedCalls, rpt, agent, batch, persist,
                   score>>

\* One getEmbedding threw: Promise.all rejects and the catch returns.
SmartEmbedFailed ==
    /\ vp.pc = "embedding"
    /\ \E s \in Slots : calls[s].pc = "threw"
    /\ vp' = [vp EXCEPT !.pc = "done", !.result = Some(smartCaught),
                        !.path = Append(@, "FAILED")]
    /\ UNCHANGED <<embeddingCache, cacheStats, calls, embedCalls, judgeCalls, rpt, agent,
                   batch, persist, score>>

\* quickVerify: both searches are issued; then the pair is found or not.
QuickVerifyCall ==
    /\ vp.pc = "idle"
    /\ vp' = [vp EXCEPT !.pc = "discovering", !.entry = "quickVerify",
                        !.path = <<"START">>]
    /\ UNCHANGED <<embeddingCache, cacheStats, calls, embedCalls, judgeCalls, rpt, agent,
                   batch, persist, score>>

QuickDiscovered(found) ==
    /\ vp.pc = "discovering"
    /\ IF found
       THEN /\ vp' = [vp EXCEPT !.pc = "judging",
                                !.path = Append(@, "JUDGMENT_REQUESTED")]
            /\ judgeCalls' = judgeCalls + 1
       ELSE /\ vp' = [vp EXCEPT !.pc = "done", !.result = Some(quickNotFound),
                                !.path = Append(@, "END")]
            /\ UNCHANGED judgeCalls
    /\ UNCHANGED <<embeddingCache, cacheStats, calls, embedCalls, rpt, agent, batch,
                   persist, score>>

\* The steps verifyMarketPair takes once the generateText call has ended: a
\* rejected call fails at once; a text is received and then either returned
\* as the verification (JSON.parse's value, as it is) or fails.
stepsAfterJudge(outcome, llmResult) ==
    IF outcome.kind = "throws" THEN <<"FAILED">>
    ELSE IF llmResult.success THEN <<"JUDGMENT_RECEIVED", "END">>
    ELSE <<"JUDGMENT_RECEIVED", "FAILED">>

\* A variant that calls the judge a second time after a failed verification.
JudgeReturnRetrying(outcome) ==
    /\ vp.pc = "judging"
    /\ LET llmResult == verifyMarketPair(outcome)
       IN  IF ~llmResult.success /\ judgeCalls < 2
           THEN /\ vp' = [vp EXCEPT !.judged = TRUE,
                                    !.judgeThrew = (outcome.kind = "throws"),
                                    !.sawObject = ContainsJSONObject(outcome.shape)]
                /\ judgeCalls' = judgeCalls + 1
           ELSE /\ vp' = [vp EXCEPT !.pc = "done", !.judged = TRUE,
                                    !.result = Some(llmResult)]
                /\ UNCHANGED judgeCalls
    /\ UNCHANGED <<embeddingCache, cacheStats, calls, embedCalls, rpt, agent, batch,
                   persist, score>>

\* The generateText call ends: verifyMarketPair returns, and the entry point
\* that called it builds its own return value.
JudgeReturn(outcome) ==
    /\ vp.pc = "judging"
    /\ LET llmResult == verifyMarketPair(outcome)
       IN  vp' = [vp EXCEPT
                    !.pc = "done",
                    !.judged = TRUE,
                    !.judgeThrew = (outcome.kind = "throws"),
                    !.sawObject = ContainsJSONObject(outcome.shape),
                    !.objectFirst = ObjectThenAnything(outcome.shape),
                    !.path = @ \o stepsAfterJudge(outcome, llmResult),
                    !.result = Some(IF vp.entry = "verifyMarketPair" THEN llmResult
                                    ELSE IF vp.entry = "smartVerifyPair"
                                    THEN smartAfterLLM(Val(vp.sim), llmResult)
                                    ELSE quickAfterVerify(llmResult))]
    /\ UNCHANGED <<embeddingCache, cacheStats, calls, embedCalls, judgeCalls, rpt, agent,
                   batch, persist, score>>

----------------------------------------------------------------------------
(* runVerificationAgent: src/src/agent.ts *)

\* What the two searches may return: a prefix of these listings (prices in
\* hundredths: 50 is 0.50), or no markets field at all.
KalshiListings ==
    << [ticker |-> "K1", yesPrice |-> Some(50)],
       [ticker |-> "K2", yesPrice |-> Some(0)],
       [ticker |-> "K3", yesPrice |-> Some(55)],
       [ticker |-> "K4", yesPrice |-> Some(40)] >>

PolymarketListings ==
    << [id |-> "P1", price |-> Some(52)],
       [id |-> "P2", price |-> Some(58)],
       [id |-> "P3", price |-> Missing] >>

Prefixes(listings) == {SubSeq(listings, 1, n) : n \in 0..Len(listings)}

\* The hard-coded markets of getMockKalshiMarkets / getMockPolymarketMarkets
\* that a query may match (the first of each list).
MockKalshiMarkets == << [ticker |-> "FED-26JAN-T4.50", yesPrice |-> Some(72)] >>

MockPolymarketMarkets == << [id |-> "fed-rate-jan-2026", price |-> Some(68)] >>

\* How a venue's discovery call ends: it answers with markets, or it fails
\* (fetch rejects, or the response is not ok); Kalshi may also lack its key.
DiscoveryOutcomes(listings) ==
    {[kind |-> "ok", markets |-> l] : l \in Prefixes(listings)}
    \cup {[kind |-> "fails", markets |-> <<>>]}

KalshiOutcomes ==
    DiscoveryOutcomes(KalshiListings) \cup {[kind |-> "nokey", markets |-> <<>>]}

PolymarketOutcomes == DiscoveryOutcomes(PolymarketListings)

\* The values a search tool returns for an outcome of its discovery call.  The
\* repository holds three versions of the two tools; they differ after a
\* failure: the mock markets matching the query with success: true
\* (market-apis.ts), success: false with markets: [], and success: false
\* without a markets field.
SearchResults(outcome, mockMarkets) ==
    IF outcome.kind = "ok"
    THEN {[success |-> TRUE, source |-> "api", markets |-> Some(outcome.markets)]}
    ELSE IF outcome.kind = "nokey"
    THEN {[success |-> TRUE, source |-> "mock", markets |-> Some(m)] :
          m \in Prefixes(mockMarkets)}
    ELSE {[success |-> TRUE, source |-> "mock", markets |-> Some(m)] :
          m \in Prefixes(mockMarkets)}
         \cup {[success |-> FALSE, source |-> "api", markets |-> Some(<<>>)],
               [success |-> FALSE, source |-> "api", markets |-> Missing]}

searchKalshiMarkets(outcome) == SearchResults(outcome, MockKalshiMarkets)

searchPolymarketMarkets(outcome) == SearchResults(outcome, MockPolymarketMarkets)

MinSimilarity == 60

MaxVerifiedPairs == 5

DefaultPrice == 50

SpreadFactor == 100

ArbitrageSpread == 3

MaxShortMatches == 2

MaxLongMatches == 6

\* The entries the pairing response may hold: index pairs (1-based) at a high
\* similarity, one below minSimilarity, and one whose index names no market.
RawMatches ==
    { [kalshiIndex |-> i, polymarketIndex |-> j, similarity |-> 90] :
      i \in 1..2, j \in 1..2 }
    \cup { [kalshiIndex |-> 3, polymarketIndex |-> 1, similarity |-> 90],
           [kalshiIndex |-> 4, polymarketIndex |-> 1, similarity |-> 90],
           [kalshiIndex |-> 1, polymarketIndex |-> 1, similarity |-> 50],
           [kalshiIndex |-> 9, polymarketIndex |-> 1, similarity |-> 90] }

\* A long response: n pairs, cycling through four pairs of listed markets.
LongMatches(n) ==
    [ i \in 1..n |-> [ kalshiIndex |-> 1 + (i % 2), polymarketIndex |-> 1 + ((i \div 2) % 2),
                       similarity |-> 90 ] ]

MatchResponses ==
    Opt(SeqsUpTo(RawMatches, MaxShortMatches)
        \cup {LongMatches(n) : n \in (MaxShortMatches + 1)..MaxLongMatches})

\* The judgments the batch flow is run against, and the outcomes of a verify.
BatchJudgments ==
    JudgmentsOver({TRUE}, {"LOW"}, {"SAFE_TO_TRADE"},
                  {<<>>, <<[type |-> "RESOLUTION_DATE", severity |-> "HIGH"]>>}, {<<90, 80>>})
    \cup JudgmentsOver({FALSE}, {"HIGH"}, {"AVOID"},
                  {<<[type |-> "RESOLUTION_DATE", severity |-> "HIGH"]>>}, {<<90, 80>>})
    \cup JudgmentsOver({TRUE}, {"LOW"}, {"BUY"}, {<<>>}, {<<90, 80>>})

BatchOutcomes ==
    { [kind |-> "throws", shape |-> <<>>, obj |-> EmptyObject],
      [kind |-> "text", shape |-> <<"x">>, obj |-> EmptyObject],
      [kind |-> "text", shape |-> <<"{", "}">>, obj |-> EmptyObject] }
    \cup { [kind |-> "text", shape |-> <<"x", "J">>, obj |-> o] : o \in BatchJudgments }

IdleAgent ==
    [ pc |-> "idle", kalshiMarkets |-> <<>>, polymarketMarkets |-> <<>>, matches |-> <<>>,
      idx |-> 0, matchedPairs |-> <<>>, verifyCalls |-> 0, result |-> Missing,
      discovery |-> Missing ]

\* list[i - 1] of JavaScript: undefined outside the list.
At(list, i) == IF i \in 1..Len(list) THEN Some(list[i]) ELSE Missing

\* findMatchingMarkets after its generateText call: a response without an
\* array, or a failed call, leaves no matches; else filter and enrich.
findMatchingMarkets(response, kalshiMarkets, polymarketMarkets) ==
    IF response = Missing THEN <<>>
    ELSE LET raw  == Val(response)
             kept == SelectSeq(raw, LAMBDA m : m.similarity >= MinSimilarity)
         IN  [ i \in 1..Len(kept) |->
                 [ kalshiMarket |-> At(kalshiMarkets, kept[i].kalshiIndex),
                   polymarketMarket |-> At(polymarketMarkets, kept[i].polymarketIndex) ] ]

\* A variant that verifies every candidate of the pairing response.
CandidatesUncapped(matches) == matches

\* potentialMatches.slice(0, 5)
Candidates(matches) ==
    SubSeq(matches, 1, IF Len(matches) < MaxVerifiedPairs THEN Len(matches)
                       ELSE MaxVerifiedPairs)

\* Both markets of a candidate are found again in the search results.
Found(match) == match.kalshiMarket # Missing /\ match.polymarketMarket # Missing

\* The next candidate from index `from` on that is verified (0: none is left);
\* the ones before it are skipped by `continue`.
NextVerified(matches, from) ==
    LET left == {i \in from..Len(Candidates(matches)) : Found(matches[i])}
    IN  IF left = {} THEN 0 ELSE Min(left)

\* x || 0.5 on a price in hundredths.
OrDefaultPrice(price) == IF TruthyNum(price) THEN Val(price) ELSE DefaultPrice

\* Math.abs((yesPrice || 0.5) - (price || 0.5)) * 100, as a plain number.
priceSpread(kalshiMarket, polyMarket) ==
    (Abs(OrDefaultPrice(kalshiMarket.yesPrice) - OrDefaultPrice(polyMarket.price))
     * SpreadFactor) \div 100

\* A variant that takes a spread of exactly 3 for an opportunity.
arbitrageOpportunityFromThree(recommendation, spread) ==
    recommendation = Some("SAFE_TO_TRADE") /\ spread >= 3

\* recommendation === 'SAFE_TO_TRADE' && priceSpread > 3
arbitrageOpportunity(recommendation, spread) ==
    recommendation = Some("SAFE_TO_TRADE") /\ spread > ArbitrageSpread

\* The record pushed for a verified pair.
matchedPair(kalshiMarket, polyMarket, verification) ==
    [ kalshi |-> [ticker |-> kalshiMarket.ticker, price |-> kalshiMarket.yesPrice],
      polymarket |-> [id |-> polyMarket.id, price |-> polyMarket.price],
      verification |-> [ isMatch |-> verification.isMatch,
                         riskLevel |-> verification.riskLevel,
                         recommendation |-> verification.recommendation,
                         misalignments |-> Val(verification.misalignments) ],
      priceSpread |-> priceSpread(kalshiMarket, polyMarket),
      arbitrageOpportunity |->
          arbitrageOpportunity(verification.recommendation,
                               priceSpread(kalshiMarket, polyMarket)) ]

CountRecommendation(pairs, rec) ==
    Cardinality({i \in 1..Len(pairs) : pairs[i].verification.recommendation = Some(rec)})

\* Array.prototype.sort with (a, b) => b.priceSpread - a.priceSpread: stable,
\* descending (insertion of each element behind those not smaller).
RECURSIVE SortBySpreadDesc(_)
SortBySpreadDesc(pairs) ==
    IF pairs = <<>> THEN <<>>
    ELSE LET sorted == SortBySpreadDesc(SubSeq(pairs, 1, Len(pairs) - 1))
             x      == pairs[Len(pairs)]
             ahead  == Cardinality({i \in 1..Len(sorted) :
                                      sorted[i].priceSpread >= x.priceSpread})
         IN  SubSeq(sorted, 1, ahead) \o <<x>> \o SubSeq(sorted, ahead + 1, Len(sorted))

\* A variant that takes, of the widest opportunities, the one verified last.
bestOpportunityLastOfWidest(arbOpportunities) ==
    arbOpportunities[Max({i \in 1..Len(arbOpportunities) :
                            \A j \in 1..Len(arbOpportunities) :
                                arbOpportunities[j].priceSpread
                                    <= arbOpportunities[i].priceSpread})]

\* arbOpportunities.sort((a, b) => b.priceSpread - a.priceSpread)[0], on the
\* array that filter() made.
bestOpportunity(arbOpportunities) == SortBySpreadDesc(arbOpportunities)[1]

\* The statistics and the summary of the value runVerificationAgent returns.
agentResult(kalshiMarkets, polymarketMarkets, pairs) ==
    LET arbOpportunities == SelectSeq(pairs, LAMBDA q : q.arbitrageOpportunity)
        safe == CountRecommendation(pairs, "SAFE_TO_TRADE")
    IN  [ matchedPairs |-> pairs,
          statistics |->
            [ kalshi |-> Len(kalshiMarkets), polymarket |-> Len(polymarketMarkets),
              matchesFound |-> Len(pairs),
              safeToTrade |-> safe,
              proceedWithCaution |-> CountRecommendation(pairs, "PROCEED_WITH_CAUTION"),
              avoid |-> CountRecommendation(pairs, "AVOID"),
              needsReview |-> CountRecommendation(pairs, "MANUAL_REVIEW") ],
          summary |-> IF arbOpportunities # <<>> THEN "ARBITRAGE"
                      ELSE IF safe > 0 THEN "SAFE_BUT_TIGHT"
                      ELSE IF pairs # <<>> THEN "ALL_DIFFER"
                      ELSE "NO_PAIRS",
          bestOpp |-> IF arbOpportunities = <<>> THEN Missing
                      ELSE Some(bestOpportunity(arbOpportunities)) ]

emptyAgentResult ==
    [ matchedPairs |-> <<>>,
      statistics |-> [ kalshi |-> 0, polymarket |-> 0, matchesFound |-> 0, safeToTrade |-> 0,
                       proceedWithCaution |-> 0, avoid |-> 0, needsReview |-> 0 ],
      summary |-> "NO_MARKETS", bestOpp |-> Missing ]

\* The loop from candidate `from` on, up to its next await: skip the
\* candidates whose markets are not found, then issue the next verify, or
\* leave the loop and return the result.
LoopFrom(a, matches, from, pairs) ==
    LET n == NextVerified(matches, from)
    IN  IF n = 0
        THEN [a EXCEPT !.pc = "done", !.matches = matches, !.idx = 0,
                       !.matchedPairs = pairs,
                       !.result = Some(agentResult(a.kalshiMarkets, a.polymarketMarkets,
                                                   pairs))]
        ELSE [a EXCEPT !.pc = "verifying", !.matches = matches, !.idx = n,
                       !.matchedPairs = pairs, !.verifyCalls = @ + 1]

RunAgentCall ==
    /\ agent.pc = "idle"
    /\ agent' = [agent EXCEPT !.pc = "searching"]
    /\ UNCHANGED <<embeddingCache, cacheStats, calls, embedCalls, vp, judgeCalls, rpt,
                   batch, persist, score>>

\* A variant without the short-circuit.
noMarketsFoundNever(kalshiMarkets, polymarketMarkets) == FALSE

\* A variant that gives up as soon as one venue has no market.
noMarketsFoundOnEither(kalshiMarkets, polymarketMarkets) ==
    kalshiMarkets = <<>> \/ polymarketMarkets = <<>>

\* kalshiMarkets.length === 0 && polymarketMarkets.length === 0
noMarketsFound(kalshiMarkets, polymarketMarkets) ==
    kalshiMarkets = <<>> /\ polymarketMarkets = <<>>

\* Both searches have returned (Promise.all; neither tool rejects): the empty
\* result when neither found a market, else the pairing request is issued.
SearchesReturn(kalshiOutcome, kalshiResult, polymarketOutcome, polymarketResult) ==
    /\ agent.pc = "searching"
    /\ kalshiResult \in searchKalshiMarkets(kalshiOutcome)
    /\ polymarketResult \in searchPolymarketMarkets(polymarketOutcome)
    /\ LET kalshiMarkets ==
               IF kalshiResult.markets = Missing THEN <<>> ELSE Val(kalshiResult.markets)
           polymarketMarkets ==
               IF polymarketResult.markets = Missing THEN <<>>
               ELSE Val(polymarketResult.markets)
           discovery ==
               Some([ kalshi |-> kalshiOutcome, kalshiResult |-> kalshiResult,
                      polymarket |-> polymarketOutcome,
                      polymarketResult |-> polymarketResult ])
       IN  IF noMarketsFound(kalshiMarkets, polymarketMarkets)
           THEN /\ agent' = [agent EXCEPT !.pc = "done", !.discovery = discovery,
                                          !.kalshiMarkets = kalshiMarkets,
                                          !.polymarketMarkets = polymarketMarkets,
                                          !.result = Some(emptyAgentResult)]
                /\ UNCHANGED judgeCalls
           ELSE /\ agent' = [agent EXCEPT !.pc = "matching", !.discovery = discovery,
                                          !.kalshiMarkets = kalshiMarkets,
                                          !.polymarketMarkets = polymarketMarkets]
                /\ judgeCalls' = judgeCalls + 1
    /\ UNCHANGED <<embeddingCache, cacheStats, calls, embedCalls, vp, rpt, batch, persist,
                   score>>

\* findMatchingMarkets returns; the loop starts.
MatchingReturn(response) ==
    /\ agent.pc = "matching"
    /\ LET matches == findMatchingMarkets(response, agent.kalshiMarkets,
                                          agent.polymarketMarkets)
           next    == LoopFrom(agent, matches, 1, <<>>)
       IN  /\ agent' = next
           /\ judgeCalls' = IF next.pc = "verifying" THEN judgeCalls + 1 ELSE judgeCalls
    /\ UNCHANGED <<embeddingCache, cacheStats, calls, embedCalls, vp, rpt, batch, persist,
                   score>>

\* The verify of candidate idx returns: push the pair when it succeeded (a
\* verification without a misalignments array makes .map throw, and the agent
\* with it), then go on with the loop.
VerifyReturn(outcome) ==
    /\ agent.pc = "verifying"
    /\ LET verifyResult == verifyMarketPair(outcome)
           match        == agent.matches[agent.idx]
       IN  IF verifyResult.success /\ verifyResult.verification # Missing
           THEN IF Val(verifyResult.verification).misalignments = Missing
                THEN /\ agent' = [agent EXCEPT !.pc = "threw"]
                     /\ UNCHANGED judgeCalls
                ELSE LET pair == matchedPair(Val(match.kalshiMarket),
                                             Val(match.polymarketMarket),
                                             Val(verifyResult.verification))
                         next == LoopFrom(agent, agent.matches, agent.idx + 1,
                                          Append(agent.matchedPairs, pair))
                     IN  /\ agent' = next
                         /\ judgeCalls' = IF next.pc = "verifying"
                                          THEN judgeCalls + 1 ELSE judgeCalls
           ELSE LET next == LoopFrom(agent, agent.matches, agent.idx + 1,
                                     agent.matchedPairs)
                IN  /\ agent' = next
                    /\ judgeCalls' = IF next.pc = "verifying"
                                     THEN judgeCalls + 1 ELSE judgeCalls
    /\ UNCHANGED <<embeddingCache, cacheStats, calls, embedCalls, vp, rpt, batch, persist,
                   score>>

----------------------------------------------------------------------------
(* generateVerificationReport as an invocation *)

IdleRpt == [pc |-> "idle", verification |-> Missing, priceSpread |-> Missing,
            report |-> Missing]

GenerateReport ==
    /\ rpt.pc = "called"
    /\ rpt' = [rpt EXCEPT !.pc = "done",
                          !.report = Some(generateVerificationReport(Val(rpt.verification),
                                                                     rpt.priceSpread))]
    /\ UNCHANGED <<embeddingCache, cacheStats, calls, embedCalls, vp, judgeCalls, agent,
                   batch, persist, score>>

----------------------------------------------------------------------------
(* Specifications *)

InitCache ==
    /\ embeddingCache = EmptyCache
    /\ cacheStats = EmptyStats
    /\ calls = [s \in Slots |-> IdleCall]
    /\ embedCalls = [id \in KnownIds |-> 0]

Init ==
    /\ InitCache
    /\ vp = IdleVp
    /\ judgeCalls = 0
    /\ rpt = IdleRpt
    /\ agent = IdleAgent
    /\ batch = IdleBatch
    /\ persist = NothingPersisted
    /\ score = IdleScore

\* verifyMarketPair, smartVerifyPair and quickVerify, one invocation.
NextVerify ==
    \/ VerifyMarketPairCall
    \/ \E k \in KalshiInputs, p \in PolymarketInputs, t \in SimilarityThresholds,
          skip \in BOOLEAN : SmartVerifyPairCall(k, p, t, skip)
    \/ \E s \in Slots, v \in EmbeddingVectors : EmbedReturn(s, v)
    \/ \E s \in Slots : EmbedThrow(s)
    \/ SmartEmbedded
    \/ SmartEmbedFailed
    \/ QuickVerifyCall
    \/ \E found \in BOOLEAN : QuickDiscovered(found)
    \/ \E o \in JudgeOutcomesOver(Judgments) : JudgeReturn(o)

SpecVerify == Init /\ [][NextVerify]_vars

\* generateVerificationReport on every admitted input.
InitReport ==
    /\ InitCache
    /\ vp = IdleVp
    /\ judgeCalls = 0
    /\ agent = IdleAgent
    /\ batch = IdleBatch
    /\ persist = NothingPersisted
    /\ score = IdleScore
    /\ rpt \in { [pc |-> "called", verification |-> Some(v), priceSpread |-> p,
                  report |-> Missing] : v \in ReportVerifications, p \in ReportSpreads }

NextReport == GenerateReport

SpecReport == InitReport /\ [][NextReport]_vars

\* quickSimilarityScore on every pair of questions.
InitScore ==
    /\ InitCache
    /\ vp = IdleVp
    /\ judgeCalls = 0
    /\ rpt = IdleRpt
    /\ agent = IdleAgent
    /\ batch = IdleBatch
    /\ persist = NothingPersisted
    /\ score \in { [pc |-> "called", question1 |-> q1, question2 |-> q2, result |-> Missing] :
                    q1 \in ScoreQuestions, q2 \in ScoreQuestions }

NextScore == QuickSimilarityScore

SpecScore == InitScore /\ [][NextScore]_vars

\* The embedding cache under concurrent callers.
NextCache ==
    \/ \E s \in Slots, id \in MarketIds, q \in Questions, v \in Venues :
          GetEmbedding(s, id, q, v)
    \/ \E s \in Slots, v \in CacheVectors : EmbedReturn(s, v)
    \/ \E s \in Slots : EmbedThrow(s)
    \/ \E s \in Slots : TakeResult(s)
    \/ clearCache

SpecCache == Init /\ [][NextCache]_vars

\* The embedding cache under callers that do not overlap: a call starts only
\* when no other call is awaiting its compute call; the cache is not cleared.
NoCallInFlight == \A s \in Slots : calls[s].pc # "awaiting"

NextCacheSeq ==
    \/ \E s \in Slots, id \in MarketIds, q \in Questions, v \in Venues :
          NoCallInFlight /\ GetEmbedding(s, id, q, v)
    \/ \E s \in Slots, v \in CacheVectors : EmbedReturn(s, v)
    \/ \E s \in Slots : EmbedThrow(s)
    \/ \E s \in Slots : TakeResult(s)

SpecCacheSeq == Init /\ [][NextCacheSeq]_vars

\* batchGenerateEmbeddings next to a getEmbedding caller and clearCache.
NextBatch ==
    \/ \E markets \in BatchInputs : BatchCall(markets)
    \/ \E embeddings \in SeqsUpTo(CacheVectors, MaxBatch) : BatchReturn(embeddings)
    \/ BatchThrow
    \/ \E id \in MarketIds : GetEmbedding("a", id, "q1", "KALSHI")
    \/ EmbedReturn("a", <<1, 1>>)
    \/ TakeResult("a")
    \/ clearCache

SpecBatch == Init /\ [][NextBatch]_vars

\* The cache with its persistence: one getEmbedding caller, save, clear, load.
NextPersist ==
    \/ \E id \in PersistIds, v \in Venues : GetEmbedding("a", id, "q1", v)
    \/ \E v \in CacheVectors : EmbedReturn("a", v)
    \/ TakeResult("a")
    \/ saveCacheToFile
    \/ clearCache
    \/ loadCacheFromFile

SpecPersist == Init /\ [][NextPersist]_vars

\* The batch flow, one run.
NextAgent ==
    \/ RunAgentCall
    \/ \E ko \in KalshiOutcomes, po \in PolymarketOutcomes :
          \E kr \in searchKalshiMarkets(ko), pr \in searchPolymarketMarkets(po) :
              SearchesReturn(ko, kr, po, pr)
    \/ \E r \in MatchResponses : MatchingReturn(r)
    \/ \E o \in BatchOutcomes : VerifyReturn(o)

SpecAgent == Init /\ [][NextAgent]_vars

Next == NextVerify \/ NextCache \/ NextBatch \/ NextPersist \/ NextAgent

Spec == Init /\ [][Next]_vars

----------------------------------------------------------------------------
(* Properties of verifyMarketPair, smartVerifyPair and quickVerify          *)
(* (SpecVerify)                                                             *)

\* The judgment an invocation hands to its caller, when it hands one.
SurfacesJudgment ==
    /\ vp.pc = "done"
    /\ vp.entry \in {"verifyMarketPair", "smartVerifyPair"}
    /\ Val(vp.result).success
    /\ Val(vp.result).verification # Missing

SurfacedJudgment == Val(Val(vp.result).verification)

\* C1: a judgment surfaced as a successful verification that says isMatch =
\* true never recommends AVOID and has riskLevel LOW or MEDIUM; a judgment
\* that breaks this is rejected (InvalidJudgment), not surfaced.
C1_ConsistentJudgmentOrRejected ==
    SurfacesJudgment =>
        (SurfacedJudgment.isMatch = Some(TRUE) =>
            /\ SurfacedJudgment.recommendation # Some("AVOID")
            /\ SurfacedJudgment.riskLevel \in {Some("LOW"), Some("MEDIUM")})

\* C2: when the judgment call throws, or its response holds no JSON object,
\* the verification is a failure that carries no judgment: verifyMarketPair
\* and smartVerifyPair return success = false without a verification, a
\* SAFE_TO_TRADE recommendation or shouldTrade = true, and quickVerify returns
\* verified = false with confidence 0 and no SAFE_TO_TRADE recommendation.
JudgeFailed == vp.pc = "done" /\ vp.judged /\ (vp.judgeThrew \/ ~vp.sawObject)

C2_JudgeFailureIsFailure ==
    JudgeFailed =>
        LET r == Val(vp.result)
        IN  IF vp.entry = "verifyMarketPair"
            THEN ~r.success /\ r.verification = Missing
            ELSE IF vp.entry = "smartVerifyPair"
            THEN /\ ~r.success
                 /\ r.verification = Missing
                 /\ r.recommendation # Some("SAFE_TO_TRADE")
                 /\ r.shouldTrade # Some(TRUE)
            ELSE /\ ~r.verified
                 /\ r.confidence = 0
                 /\ r.recommendation # "SAFE_TO_TRADE"
                 /\ r.topMisalignment = Missing

\* smartVerifyPair escalated, the judge answered with text that holds no JSON
\* object, and the tool returned its llm_failed value.
C2_Witness ==
    /\ JudgeFailed
    /\ ~vp.judgeThrew
    /\ vp.entry = "smartVerifyPair"
    /\ Val(vp.result).method = Some("llm_failed")

\* C4: in smartVerifyPair the judge is not invoked when the embedding
\* similarity is strictly below similarityThreshold or skipLLM is set (the
\* tool returns its embedding-only value); it is invoked, once, exactly when
\* the similarity is at or above the threshold and skipLLM is not set.
C4_EscalationShortCircuit ==
    vp.entry = "smartVerifyPair" =>
        /\ judgeCalls <= 1
        /\ judgeCalls = 1 =>
              /\ vp.sim # Missing
              /\ ~SimBelow(Val(vp.sim), vp.similarityThreshold)
              /\ ~vp.skipLLM
        /\ vp.sim # Missing =>
              IF SimBelow(Val(vp.sim), vp.similarityThreshold) \/ vp.skipLLM
              THEN /\ judgeCalls = 0
                   /\ vp.pc = "done"
                   /\ Val(vp.result).method = Some("embedding_only")
                   /\ Val(vp.result).verification = Missing
                   /\ Val(vp.result).shouldTrade = Some(FALSE)
              ELSE judgeCalls = 1

\* A similarity at or above the default threshold with skipLLM set: the tool
\* returned embedding-only and the judge was never called.
C4_Witness ==
    /\ vp.entry = "smartVerifyPair"
    /\ vp.pc = "done"
    /\ vp.sim # Missing
    /\ vp.similarityThreshold = DefaultSimilarityThreshold
    /\ ~SimBelow(Val(vp.sim), vp.similarityThreshold)
    /\ vp.skipLLM
    /\ Val(vp.result).method = Some("embedding_only")
    /\ judgeCalls = 0

\* The schema of a judgment: every field present, enums within their values,
\* scores within [0,1].
ValidMisalignment(m) == m.type \in MisalignmentTypes /\ m.severity \in Severities

ValidJudgment(v) ==
    /\ v.isMatch \in {Some(TRUE), Some(FALSE)}
    /\ v.matchConfidence # Missing /\ Val(v.matchConfidence) \in 0..100
    /\ v.semanticSimilarity # Missing /\ Val(v.semanticSimilarity) \in 0..100
    /\ v.riskLevel \in {Some(r) : r \in RiskLevels}
    /\ v.recommendation \in {Some(r) : r \in Recommendations}
    /\ v.misalignments # Missing
    /\ \A i \in 1..Len(Val(v.misalignments)) : ValidMisalignment(Val(v.misalignments)[i])

\* C9: a judgment surfaced as a successful verification conforms to the whole
\* schema; one that does not is a verification failure.
C9_OnlySchemaValidJudgments == SurfacesJudgment => ValidJudgment(SurfacedJudgment)

\* C23: when the judge's response is text, one JSON object and anything after
\* it, the verification succeeds: the first object is the one parsed, whatever
\* follows it.
C23_FirstObjectIsParsed ==
    ( /\ vp.pc = "done"
      /\ vp.entry \in {"verifyMarketPair", "smartVerifyPair"}
      /\ vp.judged
      /\ ~vp.judgeThrew
      /\ vp.objectFirst )
    => /\ Val(vp.result).success
       /\ Val(vp.result).verification # Missing

----------------------------------------------------------------------------
(* Properties of quickSimilarityScore (SpecScore)                           *)

\* The tokens of a question as the contract describes them: the maximal
\* blank-free stretches, longer than 2, of the lower-cased question without
\* its non-word characters.
TokensOf(question) ==
    LET n == normalize(question)
        stretches ==
            { p \in (1..Len(n)) \X (1..Len(n)) :
                /\ p[2] - p[1] + 1 > 2
                /\ \A m \in p[1]..p[2] : n[m] # " "
                /\ (p[1] = 1 \/ n[p[1] - 1] = " ")
                /\ (p[2] = Len(n) \/ n[p[2] + 1] = " ") }
    IN  {SubSeq(n, p[1], p[2]) : p \in stretches}

\* C26: the score of two questions is the Jaccard index of their token sets:
\* it lies in [0, 1], is |intersection| / |union| of the token sets, is 0 when
\* neither question has a token, and is 1 for a question with a token
\* compared with itself.
C26_TokenSimilarityIsJaccard ==
    score.pc = "done" =>
        LET r == Val(score.result)
            A == TokensOf(score.question1)
            B == TokensOf(score.question2)
        IN  /\ r.den > 0 /\ 0 <= r.num /\ r.num <= r.den
            /\ r.num * Cardinality(A \cup B) = Cardinality(A \cap B) * r.den
            /\ A \cup B = {} => r.num = 0
            /\ (score.question1 = score.question2 /\ A # {}) => r.num = r.den

\* "Fed rate" against "fed? it's": upper case and punctuation, one token of
\* three shared, the score 1/3.
C26_Witness ==
    /\ score.pc = "done"
    /\ score.question1 = <<"F", "e", "d", " ", "r", "a", "t", "e">>
    /\ score.question2 = <<"f", "e", "d", "?", " ", "i", "t", "'", "s">>
    /\ Val(score.result) = [num |-> 1, den |-> 3]

----------------------------------------------------------------------------
(* Properties of generateVerificationReport (SpecReport)                    *)

ReportDone == rpt.pc = "done"

ReportedRecommendation == Val(rpt.report).recommendation

\* C5: when a priceSpread is supplied and is below 3 (0 included) and the
\* verification lists at least one misalignment, the reported recommendation
\* is AVOID whatever the judgment recommended.
C5_TightSpreadDowngrades ==
    ( /\ ReportDone
      /\ rpt.priceSpread # Missing
      /\ Val(rpt.priceSpread) < 3
      /\ Len(Val(rpt.verification).misalignments) >= 1 )
    => ReportedRecommendation = "AVOID"

\* C6: the reported recommendation is the judgment's own or AVOID, and it is
\* the judgment's own when no priceSpread is supplied, when the priceSpread is
\* 3 or more, and when the misalignment list is empty.
C6_AdjustmentNeverUpgrades ==
    ReportDone =>
        LET v == Val(rpt.verification)
        IN  /\ ReportedRecommendation \in {v.recommendation, "AVOID"}
            /\ ( \/ rpt.priceSpread = Missing
                 \/ Val(rpt.priceSpread) >= 3
                 \/ v.misalignments = <<>> )
               => ReportedRecommendation = v.recommendation

\* A SAFE_TO_TRADE judgment without misalignments reported at a spread of 1:
\* the spread is tight and the recommendation is left as it was.
C6_Witness ==
    /\ ReportDone
    /\ Val(rpt.verification).recommendation = "SAFE_TO_TRADE"
    /\ Val(rpt.verification).misalignments = <<>>
    /\ rpt.priceSpread = Some(1)
    /\ ReportedRecommendation = "SAFE_TO_TRADE"

\* C30: the tradingGuidance of a report is the guidance for the adjusted
\* recommendation the report shows: a report that recommends AVOID carries
\* the AVOID guidance and never the line that calls the pair safe for
\* arbitrage.
C30_GuidanceFollowsAdjusted ==
    ReportDone =>
        LET report   == Val(rpt.report)
            adjusted == [Val(rpt.verification) EXCEPT
                           !.recommendation = ReportedRecommendation]
        IN  /\ report.tradingGuidance = getTradingGuidance(adjusted, rpt.priceSpread)
            /\ ReportedRecommendation = "AVOID" =>
                  /\ report.tradingGuidance[1] = "AVOID_ARBITRAGE"
                  /\ \A i \in 1..Len(report.tradingGuidance) :
                        report.tradingGuidance[i] # "SAFE_FOR_ARBITRAGE"

----------------------------------------------------------------------------
(* Properties of runVerificationAgent (SpecAgent)                           *)

RecordedPairs == agent.matchedPairs

\* The recommendation of a recorded pair after the spread adjustment of the
\* report: AVOID when the pair's spread is below 3 and it has a misalignment.
FinalRecommendation(pair) ==
    IF pair.priceSpread < 3 /\ Len(pair.verification.misalignments) >= 1
    THEN Some("AVOID")
    ELSE pair.verification.recommendation

\* C7: every pair the batch flow records carries the spread-adjusted
\* recommendation, and the avoid and safeToTrade counts of the result count
\* the adjusted recommendations.
C7_BatchRecordsAdjusted ==
    /\ \A i \in 1..Len(RecordedPairs) :
          RecordedPairs[i].verification.recommendation
              = FinalRecommendation(RecordedPairs[i])
    /\ agent.pc = "done" =>
          LET pairs == Val(agent.result).matchedPairs
              final(rec) == Cardinality({i \in 1..Len(pairs) :
                                            FinalRecommendation(pairs[i]) = Some(rec)})
          IN  /\ Val(agent.result).statistics.avoid = final("AVOID")
              /\ Val(agent.result).statistics.safeToTrade = final("SAFE_TO_TRADE")

----------------------------------------------------------------------------
(* Properties of the embedding cache (SpecCache, SpecCacheSeq)              *)

\* C3: two getEmbedding calls for one uncached marketId that overlap issue one
\* compute call between them: no two calls are awaiting a compute call for
\* the same marketId at once.
C3_OneComputePerOverlap ==
    \A s, t \in Slots :
        ( /\ s # t
          /\ calls[s].pc = "awaiting"
          /\ calls[t].pc = "awaiting" )
        => calls[s].marketId # calls[t].marketId

\* C10: with calls that follow one another (none starts while another awaits
\* its compute call, no clear in between), a call that finds the marketId
\* uncached returns what is then stored, having raised misses, generated and
\* the compute calls for the id by one and hits by none; a call that finds it
\* cached returns the stored vector, whatever question it passes, having
\* raised hits by one and nothing else; of two calls for one id at most the
\* first is a miss, and both return the same vector.
Returned(s) == calls[s].pc = "returned"

C10_CacheIdempotence ==
    /\ \A s \in Slots :
          Returned(s) =>
              LET c == calls[s]
              IN  /\ IsCached(c.marketId)
                  /\ Val(c.result) = embeddingCache[c.marketId].embedding
                  /\ c.after = IF c.wasCached
                               THEN [c.before EXCEPT !.hits = @ + 1]
                               ELSE [c.before EXCEPT !.misses = @ + 1,
                                                     !.generated = @ + 1,
                                                     !.computeCalls = @ + 1]
    /\ \A s, t \in Slots :
          (s # t /\ Returned(s) /\ Returned(t) /\ calls[s].marketId = calls[t].marketId)
          => /\ calls[s].wasCached \/ calls[t].wasCached
             /\ Val(calls[s].result).vector = Val(calls[t].result).vector

\* Two successive calls for one id with different questions: the first a
\* miss, the second a hit, one compute call in all.
C10_Witness ==
    /\ Returned("a") /\ Returned("b")
    /\ calls["a"].marketId = calls["b"].marketId
    /\ calls["a"].question # calls["b"].question
    /\ ~calls["a"].wasCached
    /\ calls["b"].wasCached
    /\ embedCalls[calls["a"].marketId] = 1
    /\ cacheStats = [hits |-> 1, misses |-> 1, generated |-> 1]

\* C28: with calls that follow one another, when the compute call of a
\* getEmbedding for an uncached id rejects, the caller gets the error, the id
\* is still uncached and the size of the cache is as it was, and around the
\* call misses and the compute calls for the id rose by one and hits and
\* generated by none; every getEmbedding for an uncached id, a later one for
\* the same id included, issues a compute call.
C28_FailedComputeStoresNothing ==
    [][ /\ \A s \in Slots :
             EmbedThrow(s) =>
                 /\ calls'[s].pc = "threw"
                 /\ calls'[s].result = Missing
                 /\ ~IsCached(calls[s].marketId)'
                 /\ getCacheStats'.size = getCacheStats.size
                 /\ getCacheStats.size = calls[s].before.generated
                 /\ calls'[s].after = [calls[s].before EXCEPT !.misses = @ + 1,
                                                              !.computeCalls = @ + 1]
        /\ \A s \in Slots, id \in MarketIds, q \in Questions, v \in Venues :
             (GetEmbedding(s, id, q, v) /\ ~IsCached(id)) =>
                 /\ embedCalls'[id] = embedCalls[id] + 1
                 /\ calls'[s].pc = "awaiting" ]_vars

\* A compute call for an id rejected, and a later getEmbedding for the same
\* id has issued the second compute call for it.
C28_Witness ==
    \E s, t \in Slots :
        /\ calls[s].pc = "threw"
        /\ calls[t].pc = "awaiting"
        /\ calls[t].marketId = calls[s].marketId
        /\ calls[t].before.computeCalls = 1
        /\ embedCalls[calls[s].marketId] = 2
        /\ cacheStats = [hits |-> 0, misses |-> 2, generated |-> 0]

----------------------------------------------------------------------------
(* Properties of batchGenerateEmbeddings (SpecBatch)                        *)

\* The markets of the call whose id the cache did not hold when it was made.
UncachedAtCall ==
    SelectSeq(batch.markets, LAMBDA m : m.id \notin DOMAIN batch.cacheAtCall)

\* C11: a batchGenerateEmbeddings call issues no compute call when every id
\* is cached and one embedMany call otherwise, for the texts of exactly the
\* uncached markets in input order; when it returns, the cache holds the i-th
\* vector of the response under the id of the i-th uncached market (for an id
\* that occurs twice, the vector of its last occurrence).
C11_OneBatchedCompute ==
    batch.pc # "idle" =>
        /\ batch.embedManyCalls = IF UncachedAtCall = <<>> THEN 0 ELSE 1
        /\ batch.request = [i \in 1..Len(UncachedAtCall) |-> UncachedAtCall[i].question]
        /\ (batch.pc = "returned" /\ UncachedAtCall # <<>>) =>
              \A i \in 1..Len(UncachedAtCall) :
                  LET id == UncachedAtCall[i].id
                  IN  /\ id \in DOMAIN batch.cacheAtReturn
                      /\ i = LastIndex(UncachedAtCall, id) =>
                            /\ batch.cacheAtReturn[id].embedding.vector = batch.response[i]
                            /\ batch.cacheAtReturn[id].embedding.sourceText
                                   = UncachedAtCall[i].question

\* A call for a cached id followed by an uncached one has returned: one
\* embedMany call for the one uncached text, its vector stored.
C11_Witness ==
    /\ batch.pc = "returned"
    /\ Len(batch.markets) = 2
    /\ batch.markets[1].id \in DOMAIN batch.cacheAtCall
    /\ batch.markets[2].id \notin DOMAIN batch.cacheAtCall
    /\ batch.embedManyCalls = 1
    /\ Len(batch.request) = 1
    /\ batch.cacheAtReturn[batch.markets[2].id].embedding.vector = batch.response[1]

UniqueIds(markets) == Cardinality(Ids(markets)) = Len(markets)

\* C12: for a list of unique ids, the map batchGenerateEmbeddings returns has
\* one entry per input id, and for every id the cache held when the call was
\* made (stored by an earlier getEmbedding) the entry is that stored embedding.
C12_BatchMapComplete ==
    (batch.pc = "returned" /\ UniqueIds(batch.markets)) =>
        /\ DOMAIN Val(batch.results) = Ids(batch.markets)
        /\ Cardinality(DOMAIN Val(batch.results)) = Len(batch.markets)
        /\ \A id \in Ids(batch.markets) \cap DOMAIN batch.cacheAtCall :
              Val(batch.results)[id] = batch.cacheAtCall[id].embedding

\* C21: right after clearCache returns the cache is empty and the counters
\* are reset: getCacheStats() reports size, hits, misses and generated 0 and
\* isCached is false for every id, whatever calls are pending at that moment.
C21_ClearResets ==
    [][ clearCache =>
          /\ getCacheStats' = [size |-> 0, hits |-> 0, misses |-> 0, generated |-> 0]
          /\ \A id \in MarketIds : ~IsCached(id)' ]_vars

\* The cache was cleared after a getEmbedding miss was stored and taken: the
\* collaborator has computed, and the cache and every counter are back at 0.
C21_Witness ==
    /\ \E id \in MarketIds : embedCalls[id] >= 1
    /\ \A s \in Slots : calls[s].pc = "idle"
    /\ getCacheStats = [size |-> 0, hits |-> 0, misses |-> 0, generated |-> 0]

----------------------------------------------------------------------------
(* Properties of the cache file (SpecPersist)                               *)

\* A non-empty cache was saved, then cleared, then loaded from the file.
RoundTripped ==
    /\ persist.loadResult = Some(TRUE)
    /\ persist.savedCache # EmptyCache
    /\ persist.cacheBeforeLoad = EmptyCache

\* C22: saving a non-empty cache, clearing it and loading the file gives a
\* cache with the same set of ids as the one saved, each id with the vector
\* and the venue it had.
C22_SerializationRoundTrip ==
    RoundTripped =>
        /\ DOMAIN persist.cacheAfterLoad = DOMAIN persist.savedCache
        /\ \A id \in DOMAIN persist.savedCache \cap DOMAIN persist.cacheAfterLoad :
              /\ persist.cacheAfterLoad[id].embedding.vector
                     = persist.savedCache[id].embedding.vector
              /\ persist.cacheAfterLoad[id].venue = persist.savedCache[id].venue

----------------------------------------------------------------------------
(* Properties of the batch loop and of discovery (SpecAgent)                *)

\* C13: no outcome of the verification of one candidate pair (the judge
\* throws, answers without JSON, or answers an incomplete object) aborts the
\* batch: runVerificationAgent never rejects out of its loop.
C13_LoopNeverAborts == agent.pc # "threw"

\* C14: in every batch run verify is issued for at most 5 candidate pairs,
\* and the judge is called at most 1 + 5 times, however many candidates the
\* pairing response holds.
C14_AtMostFiveVerified ==
    /\ agent.verifyCalls <= 5
    /\ judgeCalls <= 1 + 5
    /\ agent.pc \in {"idle", "searching"} => judgeCalls = 0
    /\ agent.pc \notin {"idle", "searching"} => judgeCalls <= 1 + agent.verifyCalls

\* A finished run whose pairing response held more than 5 candidates, all of
\* them found: 5 verifies, 6 judge calls.
C14_Witness ==
    /\ agent.pc = "done"
    /\ Len(agent.matches) > 5
    /\ agent.verifyCalls = 5
    /\ judgeCalls = 6

Searched == agent.discovery # Missing

\* C15: when both searches return zero markets, runVerificationAgent returns
\* the empty result (no pairs, zero statistics, the no-markets summary) and
\* the judge is never called, for pairing or for a verify.
C15_EmptyDiscoveryShortCircuits ==
    (Searched /\ agent.kalshiMarkets = <<>> /\ agent.polymarketMarkets = <<>>) =>
        /\ agent.pc = "done"
        /\ Val(agent.result).matchedPairs = <<>>
        /\ Val(agent.result).summary = "NO_MARKETS"
        /\ \A f \in DOMAIN Val(agent.result).statistics :
              Val(agent.result).statistics[f] = 0
        /\ judgeCalls = 0
        /\ agent.verifyCalls = 0

\* Both discovery calls answered, with no market: the run is over and the
\* judge was not called.
C15_Witness ==
    /\ Searched
    /\ Val(agent.discovery).kalshi = [kind |-> "ok", markets |-> <<>>]
    /\ Val(agent.discovery).polymarket = [kind |-> "ok", markets |-> <<>>]
    /\ agent.pc = "done"
    /\ judgeCalls = 0

\* C16: when one venue's discovery call fails and the other answers with
\* markets, the run goes on: the pairing request is issued, over the markets
\* the other venue delivered.
C16_OneVenueFailureGoesOn ==
    Searched =>
        LET d == Val(agent.discovery)
        IN  /\ ( /\ d.kalshi.kind = "fails"
                 /\ d.polymarket.kind = "ok"
                 /\ d.polymarket.markets # <<>> )
               => /\ judgeCalls >= 1
                  /\ agent.polymarketMarkets = d.polymarket.markets
            /\ ( /\ d.polymarket.kind = "fails"
                 /\ d.kalshi.kind = "ok"
                 /\ d.kalshi.markets # <<>> )
               => /\ judgeCalls >= 1
                  /\ agent.kalshiMarkets = d.kalshi.markets

\* Kalshi's discovery failed and its tool reported no market, Polymarket
\* delivered two markets: the pairing request was issued and the run ended.
C16_Witness ==
    /\ Searched
    /\ Val(agent.discovery).kalshi.kind = "fails"
    /\ agent.kalshiMarkets = <<>>
    /\ Val(agent.discovery).polymarket.kind = "ok"
    /\ Len(agent.polymarketMarkets) = 2
    /\ agent.pc = "done"
    /\ judgeCalls = 1

\* C17: a search tool whose discovery call failed reports the failure
\* (success: false) with zero markets; it never answers with mock markets.
C17_FailedDiscoveryIsReported ==
    Searched =>
        LET d == Val(agent.discovery)
        IN  /\ d.kalshi.kind = "fails" =>
                  /\ ~d.kalshiResult.success
                  /\ d.kalshiResult.source # "mock"
                  /\ agent.kalshiMarkets = <<>>
            /\ d.polymarket.kind = "fails" =>
                  /\ ~d.polymarketResult.success
                  /\ d.polymarketResult.source # "mock"
                  /\ agent.polymarketMarkets = <<>>

\* The indices of the recorded pairs that are arbitrage opportunities.
Opportunities(pairs) == {i \in 1..Len(pairs) : pairs[i].arbitrageOpportunity}

\* C24: the opportunity a finished run names as best is, of the recorded
\* pairs with arbitrageOpportunity = true, one of maximal priceSpread, and of
\* those of maximal priceSpread the one verified first; there is none when no
\* pair is an opportunity; the returned matchedPairs are the recorded pairs
\* in verification order.
C24_BestOpportunity ==
    agent.pc = "done" =>
        LET pairs == Val(agent.result).matchedPairs
            best  == Val(agent.result).bestOpp
        IN  /\ pairs = RecordedPairs
            /\ Opportunities(pairs) = {} <=> best = Missing
            /\ Opportunities(pairs) # {} =>
                  \E k \in Opportunities(pairs) :
                      /\ best = Some(pairs[k])
                      /\ \A i \in Opportunities(pairs) :
                            /\ pairs[i].priceSpread <= pairs[k].priceSpread
                            /\ pairs[i].priceSpread = pairs[k].priceSpread => k <= i

\* Two opportunities of one spread between different markets: the first is
\* the best one.
C24_Witness ==
    /\ agent.pc = "done"
    /\ Len(RecordedPairs) >= 2
    /\ RecordedPairs[1].arbitrageOpportunity
    /\ RecordedPairs[2].arbitrageOpportunity
    /\ RecordedPairs[1].priceSpread = RecordedPairs[2].priceSpread
    /\ RecordedPairs[1].kalshi.ticker # RecordedPairs[2].kalshi.ticker
    /\ Val(agent.result).bestOpp = Some(RecordedPairs[1])

\* C25: the priceSpread of every recorded pair whose two prices were observed
\* is the absolute difference of the two observed prices, a price of 0
\* included.  A recorded price k stands for k / 100 and the spread is a plain
\* number: the difference is accepted in the unit of the prices (spread * 100
\* = |k1 - k2|) and in cents (spread = |k1 - k2|).
C25_SpreadIsPriceDifference ==
    \A i \in 1..Len(RecordedPairs) :
        LET pair == RecordedPairs[i]
            diff == Abs(Val(pair.kalshi.price) - Val(pair.polymarket.price))
        IN  (pair.kalshi.price # Missing /\ pair.polymarket.price # Missing)
            => (pair.priceSpread * 100 = diff \/ pair.priceSpread = diff)

\* C29: in the result of a finished run matchesFound is the number of
\* matchedPairs and the sum of safeToTrade, proceedWithCaution, avoid and
\* needsReview: every recorded pair is in one recommendation bucket.
C29_BucketsSumToMatches ==
    agent.pc = "done" =>
        LET st == Val(agent.result).statistics
        IN  /\ st.matchesFound = Len(Val(agent.result).matchedPairs)
            /\ st.matchesFound
                   = st.safeToTrade + st.proceedWithCaution + st.avoid + st.needsReview

----------------------------------------------------------------------------
(* Properties of a verify invocation as a state machine (SpecVerify)        *)

DeclaredPaths ==
    { <<"START", "PRE_FILTERED_OUT", "END">>,
      <<"START", "JUDGMENT_REQUESTED", "JUDGMENT_RECEIVED", "VALIDATED", "ADJUSTED", "END">>,
      <<"START", "JUDGMENT_REQUESTED", "FAILED">>,
      <<"START", "JUDGMENT_REQUESTED", "JUDGMENT_RECEIVED", "FAILED">> }

\* C18: a finished verifyMarketPair or smartVerifyPair invocation has taken
\* one of the declared paths: pre-filtered out; or requested, received,
\* validated, adjusted; or failed after the request or after the response.
C18_DeclaredPathsOnly ==
    (vp.pc = "done" /\ vp.entry \in {"verifyMarketPair", "smartVerifyPair"})
    => vp.path \in DeclaredPaths

\* C19: one verify invocation calls the judge at most once; once the judge
\* has thrown or answered, the invocation is over and no further call is made.
C19_NoRetry ==
    /\ judgeCalls <= 1
    /\ vp.judged => (vp.pc = "done" /\ judgeCalls = 1)

\* The judge threw in a verifyMarketPair invocation: it failed after one call.
C19_Witness ==
    /\ vp.entry = "verifyMarketPair"
    /\ vp.judged
    /\ vp.judgeThrew
    /\ ~Val(vp.result).success
    /\ judgeCalls = 1

\* A similarity that compares as 0: not below 0, below every positive
\* number of hundredths.
ComparesAsZero(sim) == ~SimBelow(sim, 0) /\ \A pct \in 1..100 : SimBelow(sim, pct)

\* C27: the comparison of the two embeddings in smartVerifyPair fails exactly
\* when the vectors differ in length, and then the tool returns a failure
\* result (no judgment, no judge call) and does not throw; for vectors of one
\* length the similarity is computed, and it is 0 when one of them has zero
\* magnitude.
C27_DimensionMismatch ==
    [][ SmartEmbedded =>
          LET a == Val(calls["a"].result).vector
              b == Val(calls["b"].result).vector
          IN  IF Len(a) # Len(b)
              THEN /\ vp'.pc = "done"
                   /\ vp'.sim = Missing
                   /\ ~Val(vp'.result).success
                   /\ Val(vp'.result).verification = Missing
                   /\ Val(vp'.result).shouldTrade # Some(TRUE)
                   /\ judgeCalls' = judgeCalls
              ELSE /\ vp'.sim # Missing
                   /\ vp'.pc = "done" => Val(vp'.result).method # Missing
                   /\ (Dot(a, a) = 0 \/ Dot(b, b) = 0) => ComparesAsZero(Val(vp'.sim)) ]_vars

\* Both embeddings arrived, of different lengths: the tool returned its
\* failure value and the judge was not called.
C27_Witness ==
    /\ vp.entry = "smartVerifyPair"
    /\ vp.pc = "done"
    /\ Val(vp.result) = smartCaught
    /\ \A s \in Slots : calls[s].pc = "idle"
    /\ \E id \in MarketIds : IsCached(id) /\ Len(embeddingCache[id].embedding.vector) = 1
    /\ \E id \in MarketIds : IsCached(id) /\ Len(embeddingCache[id].embedding.vector) = 2
    /\ judgeCalls = 0

\* similarity < 0.5, from the dot product and the squared norms (a zero
\* magnitude makes the similarity 0).
BelowHalf(sim) ==
    \/ sim.normA * sim.normB = 0
    \/ sim.dotProduct < 0
    \/ 4 * sim.dotProduct * sim.dotProduct < sim.normA * sim.normB

====
